---- MODULE Spec2Model ----
(***************************************************************************)
(* Model of the PDF outline extractor (app/extractor.py), of the training  *)
(* side feature encoder (app/utils.py, generate_training_data.py,          *)
(* train_model.py) and of the batch driver.                                *)
(*                                                                         *)
(* Text is a sequence of one-character strings, so that strip, split,      *)
(* lower and the regular expressions act on characters as Python does.     *)
(* Sizes and bbox coordinates of extracted spans are in hundredths of a    *)
(* point (the code rounds them to 2 decimals); raw values of the geometry  *)
(* source are in thousandths of a point.  Page width and height are in     *)
(* points.  A Python dict is a record, a missing key a missing field.      *)
(***************************************************************************)
EXTENDS Integers, Sequences, FiniteSets, TLC

VARIABLES
    pc,             \* position inside the operation that is running
    \* extract_outline
    pdf_path,       \* argument of extract_outline
    pdf,            \* what the geometry source holds for pdf_path
    spans,          \* spans
    title,          \* title
    i,              \* loop index (1-based), next span to visit
    outline,        \* outline
    prev_heading,   \* prev_heading, <<>> is None
    current_level,  \* current_level
    answers,        \* one entry per visited span: NotAsked or the classifier's answer
    result,         \* the returned record, <<>> before the return
    \* the two sides of the classifier
    span_in,        \* the span that is encoded
    prev_in,        \* its predecessor, <<>> is None
    feats_out,      \* extract_outline: feats, <<>> before line 110
    x_fed,          \* extract_outline: x[0], <<>> before line 111
    rows,           \* generate_training_data: rows, each row as its list of (key, value)
    X_columns,      \* train_model: the columns of X, <<>> before the fit
    \* process
    input_dir,      \* the names of the files of input_dir
    pending,        \* the names os.listdir(input_dir) has still to yield
    unreadable,     \* the input files fitz cannot open
    output_files,   \* the files of output_dir: name -> record written
    stats           \* stats

outlineVars == <<pdf_path, pdf, spans, title, i, outline, prev_heading,
                 current_level, answers, result>>

encoderVars == <<span_in, prev_in, feats_out, x_fed, rows, X_columns>>

batchVars == <<input_dir, pending, unreadable, output_files, stats>>

vars == <<pc, outlineVars, encoderVars, batchVars>>

-----------------------------------------------------------------------------
(* Bounds of the model *)

MaxSpans == 3

MaxRows == 1

MaxTitleSpans == 4

-----------------------------------------------------------------------------
(* Characters and strings *)

Whitespace == {" ", "\t"}

UpperOf == [a |-> "A", b |-> "B", c |-> "C", d |-> "D", f |-> "F",
            i |-> "I", j |-> "J", l |-> "L", m |-> "M", n |-> "N",
            o |-> "O", p |-> "P", r |-> "R", s |-> "S", v |-> "V",
            x |-> "X"]

LowerChars == DOMAIN UpperOf

UpperChars == {UpperOf[k] : k \in LowerChars}

LowerOf == [u \in UpperChars |-> CHOOSE k \in LowerChars : UpperOf[k] = u]

LowerOfChar(c) == IF c \in UpperChars THEN LowerOf[c] ELSE c

Min(a, b) == IF a <= b THEN a ELSE b

Max(a, b) == IF a >= b THEN a ELSE b

Abs(a) == IF a < 0 THEN 0 - a ELSE a

\* str.lower()
lower(s) == [k \in 1..Len(s) |-> LowerOfChar(s[k])]

RECURSIVE lstrip(_)
lstrip(s) ==
    IF s = <<>> THEN <<>>
    ELSE IF Head(s) \in Whitespace THEN lstrip(Tail(s))
    ELSE s

RECURSIVE rstrip(_)
rstrip(s) ==
    IF s = <<>> THEN <<>>
    ELSE IF s[Len(s)] \in Whitespace THEN rstrip(SubSeq(s, 1, Len(s) - 1))
    ELSE s

\* str.strip()
strip(s) == rstrip(lstrip(s))

\* str.split(): the maximal runs of non-whitespace characters
RECURSIVE SplitFrom(_, _, _)
SplitFrom(s, words, cur) ==
    IF s = <<>>
    THEN IF cur = <<>> THEN words ELSE Append(words, cur)
    ELSE IF Head(s) \in Whitespace
         THEN SplitFrom(Tail(s), IF cur = <<>> THEN words ELSE Append(words, cur), <<>>)
         ELSE SplitFrom(Tail(s), words, Append(cur, Head(s)))

split(s) == SplitFrom(s, <<>>, <<>>)

\* re.sub(r"\s+", " ", s)
RECURSIVE CollapseWs(_)
CollapseWs(s) ==
    IF s = <<>> THEN <<>>
    ELSE IF Head(s) \in Whitespace
         THEN <<" ">> \o CollapseWs(lstrip(s))
         ELSE <<Head(s)>> \o CollapseWs(Tail(s))

\* " ".join(parts)
RECURSIVE JoinSpace(_)
JoinSpace(parts) ==
    IF parts = <<>> THEN <<>>
    ELSE IF Len(parts) = 1 THEN parts[1]
    ELSE parts[1] \o <<" ">> \o JoinSpace(Tail(parts))

normalize_text(text) == CollapseWs(lower(strip(text)))

\* os.path.basename
RECURSIVE basename(_)
basename(p) ==
    IF \E k \in 1..Len(p) : p[k] = "/"
    THEN basename(SubSeq(p, (CHOOSE k \in 1..Len(p) : p[k] = "/") + 1, Len(p)))
    ELSE p

-----------------------------------------------------------------------------
(* PDFOutlineExtractor.__init__ *)

title_font_threshold_tenths == 9

min_heading_words == 2

DefaultPageWidth == 612

DefaultPageHeight == 792

-----------------------------------------------------------------------------
(* extract_spans *)

\* round(x, 2) of a value given in thousandths, as hundredths
Round2(x) ==
    LET q == x \div 10
        r == x % 10
    IN  IF r < 5 THEN q
        ELSE IF r > 5 THEN q + 1
        ELSE IF q % 2 = 0 THEN q ELSE q + 1

DictGet(d, key, default) == IF key \in DOMAIN d THEN d[key] ELSE default

\* One iteration of the innermost loop: the span appended, <<>> when the
\* text is blank, or the exception raised.
ExtractOneSpan(span, page_num, page_dict) ==
    LET text == strip(DictGet(span, "text", <<>>))
    IN  IF text = <<>> THEN [raised |-> FALSE, out |-> <<>>]
        ELSE IF "size" \notin DOMAIN span \/ "bbox" \notin DOMAIN span
        THEN [raised |-> TRUE, out |-> <<>>]
        ELSE [raised |-> FALSE,
              out |-> << [text |-> text,
                          font |-> lower(DictGet(span, "font", <<>>)),
                          size |-> Round2(span.size),
                          bbox |-> [k \in 1..4 |-> Round2(span.bbox[k])],
                          page |-> page_num,
                          page_width |-> DictGet(page_dict, "width", DefaultPageWidth),
                          page_height |-> DictGet(page_dict, "height", DefaultPageHeight)] >>]

\* The spans of all pages in reading order; raised when a span has no size
RECURSIVE ExtractFrom(_, _, _)
ExtractFrom(raw, pages, acc) ==
    IF raw = <<>> THEN [raised |-> FALSE, out |-> acc]
    ELSE LET one == ExtractOneSpan(Head(raw).span, Head(raw).page, pages[Head(raw).page])
         IN  IF one.raised THEN [raised |-> TRUE, out |-> <<>>]
             ELSE ExtractFrom(Tail(raw), pages, acc \o one.out)

extract_spans(doc) == ExtractFrom(doc.raw, doc.pages, <<>>)

-----------------------------------------------------------------------------
(* detect_title *)

word_count(text) == Len(split(text))

RECURSIVE MaxSize(_)
MaxSize(ss) ==
    IF Len(ss) = 1 THEN ss[1].size
    ELSE Max(ss[1].size, MaxSize(Tail(ss)))

\* an insertion that puts e before the spans of the same height
RECURSIVE InsertByTop_TiesFirst(_, _)
InsertByTop_TiesFirst(sorted, e) ==
    IF sorted = <<>> THEN <<e>>
    ELSE IF e.bbox[2] <= Head(sorted).bbox[2] THEN <<e>> \o sorted
    ELSE <<Head(sorted)>> \o InsertByTop_TiesFirst(Tail(sorted), e)

\* list.sort(key = bbox[1]): stable insertion of e into the sorted list
RECURSIVE InsertByTop(_, _)
InsertByTop(sorted, e) ==
    IF sorted = <<>> THEN <<e>>
    ELSE IF e.bbox[2] < Head(sorted).bbox[2] THEN <<e>> \o sorted
    ELSE <<Head(sorted)>> \o InsertByTop(Tail(sorted), e)

RECURSIVE SortByTop(_)
SortByTop(ss) ==
    IF ss = <<>> THEN <<>>
    ELSE InsertByTop(SortByTop(SubSeq(ss, 1, Len(ss) - 1)), ss[Len(ss)])

IsFirstPage(s) == DictGet(s, "page", 1) = 1

RECURSIVE FirstLongText(_)
FirstLongText(ss) ==
    IF ss = <<>> THEN <<>>
    ELSE IF word_count(Head(ss).text) >= min_heading_words THEN strip(Head(ss).text)
    ELSE FirstLongText(Tail(ss))

detect_title(ss) ==
    IF ss = <<>> THEN <<>>
    ELSE
      LET first_page == SelectSeq(ss, IsFirstPage)
          max_size == MaxSize(first_page)
          IsCandidate(s) ==
              /\ 10 * s.size >= title_font_threshold_tenths * max_size
              /\ word_count(s.text) >= min_heading_words
          candidates == SortByTop(SelectSeq(first_page, IsCandidate))
          top3 == SubSeq(candidates, 1, Min(3, Len(candidates)))
          joined == strip(JoinSpace([k \in 1..Len(top3) |-> strip(top3[k].text)]))
      IN  IF first_page # <<>> /\ joined # <<>> THEN joined
          ELSE FirstLongText(ss)

-----------------------------------------------------------------------------
(* extract_features (app/extractor.py) *)

Digits == {"1", "2"}

RomanChars == {"I", "V", "X", "L", "C", "D", "M"}

\* the three characters the source file holds where a bullet was meant
MojibakeBullet == <<"<e2>", "<20ac>", "<a2>">>

Bullet == "<2022>"

RECURSIVE RunLen(_, _)
RunLen(s, set) ==
    IF s = <<>> \/ Head(s) \notin set THEN 0
    ELSE 1 + RunLen(Tail(s), set)

CharAt(s, k) == IF k >= 1 /\ k <= Len(s) THEN s[k] ELSE ""

IsPrefix(p, s) == Len(p) <= Len(s) /\ SubSeq(s, 1, Len(p)) = p

\* "bold" in font
Contains(sub, s) ==
    \E k \in 0..Len(s) : k + Len(sub) <= Len(s) /\ SubSeq(s, k + 1, k + Len(sub)) = sub

BoldWord == <<"b", "o", "l", "d">>

\* re.match(r"^(\d+[\.\)]|[IVXLCDM]+\.?|<mojibake bullet>|\-)\s", s)
NumberedMatch(s) ==
    LET nd == RunLen(s, Digits)
        nr == RunLen(s, RomanChars)
    IN  \/ nd >= 1 /\ CharAt(s, nd + 1) \in {".", ")"} /\ CharAt(s, nd + 2) \in Whitespace
        \/ nr >= 1 /\ CharAt(s, nr + 1) = "." /\ CharAt(s, nr + 2) \in Whitespace
        \/ nr >= 1 /\ CharAt(s, nr + 1) \in Whitespace
        \/ IsPrefix(MojibakeBullet, s) /\ CharAt(s, 4) \in Whitespace
        \/ CharAt(s, 1) = "-" /\ CharAt(s, 2) \in Whitespace

\* re.match(r"^(\d+[\.\)]|<bullet>|\-)\s", s) of app/utils.py
UtilsNumberedMatch(s) ==
    LET nd == RunLen(s, Digits)
    IN  \/ nd >= 1 /\ CharAt(s, nd + 1) \in {".", ")"} /\ CharAt(s, nd + 2) \in Whitespace
        \/ CharAt(s, 1) = Bullet /\ CharAt(s, 2) \in Whitespace
        \/ CharAt(s, 1) = "-" /\ CharAt(s, 2) \in Whitespace

Int01(b) == IF b THEN 1 ELSE 0

CountUpper(s) == Cardinality({k \in 1..Len(s) : s[k] \in UpperChars})

\* str.isupper(): some cased character and no lowercase one
isupper(s) ==
    /\ \E k \in 1..Len(s) : s[k] \in UpperChars
    /\ \A k \in 1..Len(s) : s[k] \notin LowerChars

\* y_distance, shared by both encoders (bbox in hundredths, 5 points = 500)
YDistance(bbox, prev) ==
    IF prev = <<>> THEN 0
    ELSE IF Abs(bbox[2] - prev[1].bbox[2]) < 500 THEN 0
    ELSE Abs(bbox[2] - prev[1].bbox[4])

\* abs(span_center - page_center) < 0.15 * page_width, both sides times 200
IsCentered(bbox, page_width) ==
    Abs(bbox[1] + bbox[3] - 100 * page_width) < 30 * page_width

\* bbox[1] / page_height raises ZeroDivisionError
FeaturesRaise(span) == DictGet(span, "page_height", DefaultPageHeight) = 0

\* prev is <<>> for None and <<span>> otherwise; a quotient is the pair
\* <<numerator, denominator>>; raised is the ZeroDivisionError of
\* bbox[1] / page_height
extract_features(span, prev) ==
    LET text == span.text
        bbox == span.bbox
        page_height == DictGet(span, "page_height", DefaultPageHeight)
        page_width == DictGet(span, "page_width", DefaultPageWidth)
    IN  IF FeaturesRaise(span) THEN [raised |-> TRUE]
        ELSE [raised |-> FALSE,
              font_size |-> span.size,
              is_bold |-> Int01(Contains(BoldWord, DictGet(span, "font", <<>>))),
              x0 |-> bbox[1],
              word_count |-> word_count(text),
              capital_ratio |-> <<CountUpper(text), Max(Len(text), 1)>>,
              ends_colon |-> Int01(CharAt(strip(text), Len(strip(text))) = ":"),
              numbered |-> Int01(NumberedMatch(strip(text))),
              y_distance |-> YDistance(bbox, prev),
              is_centered |-> Int01(IsCentered(bbox, page_width)),
              starts_capital |-> IF text # <<>> THEN Int01(text[1] \in UpperChars) ELSE 0,
              all_caps |-> Int01(isupper(text)),
              line_length |-> bbox[3] - bbox[1],
              page_position |-> <<bbox[2], 100 * page_height>>,
              prev_font_size |-> IF prev # <<>> THEN prev[1].size ELSE 0,
              prev_is_bold |-> IF prev # <<>>
                               THEN Int01(Contains(BoldWord, DictGet(prev[1], "font", <<>>)))
                               ELSE 0]

\* self.FEATURE_ORDER
FEATURE_ORDER ==
    <<"font_size", "is_bold", "x0", "word_count", "capital_ratio",
      "ends_colon", "numbered", "y_distance", "is_centered",
      "starts_capital", "all_caps", "line_length", "page_position",
      "prev_font_size", "prev_is_bold">>

\* x = [[feats[k] for k in self.FEATURE_ORDER]]
FeatureRow(feats) == [k \in 1..Len(FEATURE_ORDER) |-> feats[FEATURE_ORDER[k]]]

-----------------------------------------------------------------------------
(* The classifier: self.le.inverse_transform(self.model.predict(x))[0] *)

HeadingLabels == {"H1", "H2", "H3", "H4"}

\* a label that is not one of H1..H4: line 118 tests membership only, so
\* every such label ("None" included) takes the same path
OtherLabels == {"Title"}

PredictRaises == "<raise>"

\* the entry of answers for a span that never reached the classifier
NotAsked == "<skipped>"

LevelNames == <<"H1", "H2", "H3", "H4">>

\* int(label[1])
ParseLevel(label) == CHOOSE n \in 1..Len(LevelNames) : LevelNames[n] = label

-----------------------------------------------------------------------------
(* extract_outline *)

\* the title compared as written, not normalized
SkipSpan_AsWritten(span, ttl) ==
    \/ strip(span.text) = ttl
    \/ word_count(strip(span.text)) < min_heading_words

\* lines 105-106
SkipSpan(span, ttl) ==
    \/ normalize_text(strip(span.text)) = normalize_text(ttl)
    \/ word_count(strip(span.text)) < min_heading_words

\* the level of the label taken as it is
ClampedLevel_Unclamped(label, prev) == ParseLevel(label)

\* the level held at the level of the heading before, one too shallow
ClampedLevel_NoDeeper(label, prev) ==
    IF prev # <<>>
    THEN Min(ParseLevel(label), prev[1].level)
    ELSE ParseLevel(label)

\* lines 119-124
ClampedLevel(label, prev) ==
    IF prev # <<>>
    THEN Min(ParseLevel(label), prev[1].level + 1)
    ELSE ParseLevel(label)

\* lines 126-131
MakeHeading(span, level_num) ==
    [level |-> LevelNames[level_num],
     text |-> strip(span.text),
     page |-> span.page,
     bbox |-> span.bbox]

\* lines 136-140
SuccessRecord(ttl, ol, path) ==
    [title |-> ttl, outline |-> ol, source |-> basename(path)]

\* lines 144-149; the error text is the name of the exception
ErrorRecord(path, e) ==
    [title |-> <<>>, outline |-> <<>>, source |-> basename(path), error |-> e]

\* fitz.open raises
OpenFails ==
    /\ pc = "open"
    /\ ~pdf.openable
    /\ result' = <<ErrorRecord(pdf_path, "FileDataError")>>
    /\ pc' = "done"
    /\ UNCHANGED <<pdf_path, pdf, spans, title, i, outline, prev_heading,
                   current_level, answers>>
    /\ UNCHANGED <<encoderVars, batchVars>>

\* extract_spans raises inside the try block
ExtractSpansRaises ==
    /\ pc = "open"
    /\ pdf.openable
    /\ extract_spans(pdf).raised
    /\ result' = <<ErrorRecord(pdf_path, "KeyError")>>
    /\ pc' = "done"
    /\ UNCHANGED <<pdf_path, pdf, spans, title, i, outline, prev_heading,
                   current_level, answers>>
    /\ UNCHANGED <<encoderVars, batchVars>>

\* lines 93-99
Begin ==
    /\ pc = "open"
    /\ pdf.openable
    /\ ~extract_spans(pdf).raised
    /\ spans' = extract_spans(pdf).out
    /\ title' = detect_title(spans')
    /\ outline' = <<>>
    /\ current_level' = 1
    /\ prev_heading' = <<>>
    /\ i' = 1
    /\ pc' = "loop"
    /\ UNCHANGED <<pdf_path, pdf, answers, result>>
    /\ UNCHANGED <<encoderVars, batchVars>>

\* lines 102-107: continue
Continue ==
    /\ i' = i + 1
    /\ answers' = Append(answers, NotAsked)
    /\ UNCHANGED <<pdf_path, pdf, pc, spans, title, outline, prev_heading,
                   current_level, result>>
    /\ UNCHANGED <<encoderVars, batchVars>>

\* the error record filled with what was collected so far
FeaturesRaised_KeepsOutline ==
    /\ result' = <<[title |-> title, outline |-> outline,
                    source |-> basename(pdf_path), error |-> "ZeroDivisionError"]>>
    /\ pc' = "done"
    /\ UNCHANGED <<pdf_path, pdf, spans, title, i, outline, prev_heading,
                   current_level, answers>>
    /\ UNCHANGED <<encoderVars, batchVars>>

\* line 110 raises: the outer except returns the error record
FeaturesRaised ==
    /\ result' = <<ErrorRecord(pdf_path, "ZeroDivisionError")>>
    /\ pc' = "done"
    /\ UNCHANGED <<pdf_path, pdf, spans, title, i, outline, prev_heading,
                   current_level, answers>>
    /\ UNCHANGED <<encoderVars, batchVars>>

\* no inner try: the exception of predict reaches the outer except
PredictRaised_Propagates ==
    /\ answers' = Append(answers, PredictRaises)
    /\ result' = <<ErrorRecord(pdf_path, "ValueError")>>
    /\ pc' = "done"
    /\ UNCHANGED <<pdf_path, pdf, spans, title, i, outline, prev_heading,
                   current_level>>
    /\ UNCHANGED <<encoderVars, batchVars>>

\* lines 113-116: the bare except, continue
PredictRaised ==
    /\ answers' = Append(answers, PredictRaises)
    /\ i' = i + 1
    /\ UNCHANGED <<pdf_path, pdf, pc, spans, title, outline, prev_heading,
                   current_level, result>>
    /\ UNCHANGED <<encoderVars, batchVars>>

\* line 118 is false
OtherLabel ==
    /\ \E label \in OtherLabels : answers' = Append(answers, label)
    /\ i' = i + 1
    /\ UNCHANGED <<pdf_path, pdf, pc, spans, title, outline, prev_heading,
                   current_level, result>>
    /\ UNCHANGED <<encoderVars, batchVars>>

\* lines 118-134
Heading ==
    /\ \E label \in HeadingLabels :
          LET level_num == ClampedLevel(label, prev_heading)
          IN  /\ answers' = Append(answers, label)
              /\ outline' = Append(outline, MakeHeading(spans[i], level_num))
              /\ prev_heading' = <<[level |-> level_num, page |-> spans[i].page]>>
              /\ current_level' = level_num
    /\ i' = i + 1
    /\ UNCHANGED <<pdf_path, pdf, pc, spans, title, result>>
    /\ UNCHANGED <<encoderVars, batchVars>>

\* lines 101-134: one iteration of the loop over the spans
LoopStep ==
    /\ pc = "loop"
    /\ i <= Len(spans)
    /\ IF SkipSpan(spans[i], title) THEN Continue
       ELSE IF FeaturesRaise(spans[i]) THEN FeaturesRaised
       ELSE PredictRaised \/ OtherLabel \/ Heading

\* lines 136-140
Return ==
    /\ pc = "loop"
    /\ i > Len(spans)
    /\ result' = <<SuccessRecord(title, outline, pdf_path)>>
    /\ pc' = "done"
    /\ UNCHANGED <<pdf_path, pdf, spans, title, i, outline, prev_heading,
                   current_level, answers>>
    /\ UNCHANGED <<encoderVars, batchVars>>

-----------------------------------------------------------------------------
(* The documents extract_outline is run on *)

Pages == {1, 2}

ArialBold == <<"A", "r", "i", "a", "l", "-", "B", "o", "l", "d">>

\* x0, y0, x1, y1 in thousandths of a point
UpperBox == <<72000, 100004, 300000, 112004>>

LowerBox == <<72000, 200000, 300000, 212000>>

RawSpanPool ==
    { [text |-> <<"A", " ", "b">>, font |-> ArialBold, size |-> 12000, bbox |-> LowerBox],
      [text |-> <<" ", "a", " ", "\t", "b">>, font |-> ArialBold, size |-> 11996, bbox |-> UpperBox],
      [text |-> <<"c", " ">>, size |-> 10000, bbox |-> UpperBox],
      [text |-> <<"I", " ", "d">>, font |-> ArialBold, size |-> 12000, bbox |-> UpperBox],
      [text |-> <<"A", " ", "b">>, font |-> ArialBold, bbox |-> LowerBox] }

PlainPage == [blocks |-> "blocks"]

FlatPage == [blocks |-> "blocks", width |-> 600, height |-> 0]

PageLayouts ==
    { [p \in Pages |-> PlainPage],
      [p \in Pages |-> IF p = 2 THEN FlatPage ELSE PlainPage] }

\* reading order: the pages of successive spans never decrease
InReadingOrder(q) == \A k \in 1..(Len(q) - 1) : q[k].page <= q[k + 1].page

\* a file that does not open, or up to MaxSpans spans on two pages; the
\* page of zero height is one that holds a span
IsDocument(doc) ==
    \/ doc = [openable |-> FALSE, raw |-> <<>>, pages |-> [p \in Pages |-> PlainPage]]
    \/ \E n \in 0..MaxSpans :
          \E r \in [1..n -> [page : Pages, span : RawSpanPool]] :
              \E l \in PageLayouts :
                  /\ InReadingOrder(r)
                  /\ (l[2] = FlatPage => \E k \in 1..n : r[k].page = 2)
                  /\ doc = [openable |-> TRUE, raw |-> r, pages |-> l]

PdfPaths == { <<"i", "n", "/", "a", ".", "p", "d", "f">> }

\* the variables of the operations that are not running
EncoderIdle ==
    /\ span_in = <<>>
    /\ prev_in = <<>>
    /\ feats_out = <<>>
    /\ x_fed = <<>>
    /\ rows = <<>>
    /\ X_columns = <<>>

BatchIdle ==
    /\ input_dir = {}
    /\ pending = {}
    /\ unreadable = {}
    /\ output_files = <<>>
    /\ stats = [processed |-> 0, errors |-> 0]

OutlineIdle ==
    /\ pdf_path = <<>>
    /\ pdf = <<>>
    /\ spans = <<>>
    /\ title = <<>>
    /\ i = 0
    /\ outline = <<>>
    /\ prev_heading = <<>>
    /\ current_level = 0
    /\ answers = <<>>
    /\ result = <<>>

Init ==
    /\ pdf_path \in PdfPaths
    /\ IsDocument(pdf)
    /\ pc = "open"
    /\ spans = <<>>
    /\ title = <<>>
    /\ i = 0
    /\ outline = <<>>
    /\ prev_heading = <<>>
    /\ current_level = 0
    /\ answers = <<>>
    /\ result = <<>>
    /\ EncoderIdle
    /\ BatchIdle

Next ==
    \/ OpenFails
    \/ ExtractSpansRaises
    \/ Begin
    \/ LoopStep
    \/ Return

Spec == Init /\ [][Next]_vars

-----------------------------------------------------------------------------
(* Properties of extract_outline *)

LevelOf(h) == ParseLevel(h.level)

Returned == result # <<>>

HasError(rec) == "error" \in DOMAIN rec

\* the answers of the classifier, in order
Asked == SelectSeq(answers, LAMBDA a : a # NotAsked)

\* the answers that made a heading, in order
HeadingAnswers == SelectSeq(answers, LAMBDA a : a \in HeadingLabels)

Monotone(ol) ==
    \A k \in 1..(Len(ol) - 1) : LevelOf(ol[k + 1]) <= LevelOf(ol[k]) + 1

\* C1: in the outline being built and in the returned outline, no heading is
\* more than one level deeper than the heading emitted just before it,
\* whatever the classifier answered.
C1_HierarchyMonotone ==
    /\ Monotone(outline)
    /\ Returned => Monotone(result[1].outline)

\* a returned outline in which a deeper label was pulled up to H2 after an H1
C1_Witness ==
    /\ Returned
    /\ ~HasError(result[1])
    /\ Asked = <<"H1", "H4">>
    /\ Len(result[1].outline) = 2
    /\ result[1].outline[2].level = "H2"

\* C2: no heading of a returned record has normalized text equal to the
\* normalized title of that record.
C2_TitleExcluded ==
    Returned =>
        LET t == normalize_text(result[1].title)
        IN  \A k \in 1..Len(result[1].outline) :
                normalize_text(result[1].outline[k].text) # t

\* a returned record with a heading, whose document holds a span that differs
\* from the title in case or whitespace only and was left out of the outline
C2_Witness ==
    /\ Returned
    /\ ~HasError(result[1])
    /\ Len(result[1].outline) >= 1
    /\ \E k \in 1..Len(spans) :
          /\ spans[k].text # result[1].title
          /\ normalize_text(spans[k].text) = normalize_text(result[1].title)

\* C3: the level of the first heading is the parsed level of its label, the
\* level of every later heading is the smaller of the parsed level and the
\* level of the heading before it plus one; labels H1, H3, H2 give levels
\* 1, 2, 2 and a first label H4 gives H4.
C3_ExactLevels ==
    LET ha == HeadingAnswers
    IN  /\ Len(outline) = Len(ha)
        /\ \A k \in 1..Len(outline) :
              LevelOf(outline[k]) =
                  IF k = 1 THEN ParseLevel(ha[k])
                  ELSE Min(ParseLevel(ha[k]), LevelOf(outline[k - 1]) + 1)
        /\ ha = <<"H1", "H3", "H2">> =>
              [k \in 1..3 |-> outline[k].level] = <<"H1", "H2", "H2">>
        /\ (ha # <<>> /\ ha[1] = "H4") => outline[1].level = "H4"

\* the scenario of three headings labelled H1, H3, H2, returned
C3_Witness ==
    /\ Returned
    /\ ~HasError(result[1])
    /\ Asked = <<"H1", "H3", "H2">>
    /\ Len(result[1].outline) = 3

\* The loop of lines 101-134 from span k on as a function of what the
\* classifier answers on the spans that reach it: the outline and the cursor
\* after the last span.
RECURSIVE ReplayLoop(_, _, _, _)
ReplayLoop(ss, ans, k, st) ==
    IF k > Len(ss) \/ k > Len(ans) THEN st
    ELSE IF ans[k] \in HeadingLabels
         THEN LET level_num == ClampedLevel(ans[k], st.prev)
              IN  ReplayLoop(ss, ans, k + 1,
                      [outline |-> Append(st.outline, MakeHeading(ss[k], level_num)),
                       prev |-> <<[level |-> level_num, page |-> ss[k].page]>>])
         ELSE ReplayLoop(ss, ans, k + 1, st)

\* every answer that is not a heading level replaced by the label None
AsNone(ans) ==
    [k \in 1..Len(ans) |-> IF ans[k] \in HeadingLabels \cup {NotAsked} THEN ans[k] ELSE "None"]


\* The document cannot be processed: it does not open, a span that has text
\* has no size or no bbox, or the features of a span that reaches the
\* classifier cannot be computed (spans and title are those of the run).
DocumentFails ==
    \/ ~pdf.openable
    \/ \E k \in 1..Len(pdf.raw) :
          /\ "text" \in DOMAIN pdf.raw[k].span
          /\ \E c \in 1..Len(pdf.raw[k].span.text) : pdf.raw[k].span.text[c] \notin Whitespace
          /\ ("size" \notin DOMAIN pdf.raw[k].span \/ "bbox" \notin DOMAIN pdf.raw[k].span)
    \/ \E k \in 1..Len(spans) :
          /\ spans[k].page_height = 0
          /\ ~SkipSpan(spans[k], title)

\* C4: a span on which the classifier raises or answers a label outside
\* H1..H4 adds no heading and leaves the cursor as it was, the loop goes on
\* to the end, and the record returned has no error field and the outline
\* that the same answers with None in place of every such answer give.
C4_AnomalyAbsorbed ==
    (Returned /\ ~DocumentFails) =>
        LET none == ReplayLoop(spans, AsNone(answers), 1, [outline |-> <<>>, prev |-> <<>>])
        IN  /\ ~HasError(result[1])
            /\ Len(answers) = Len(spans)
            /\ result[1].outline = none.outline
            /\ prev_heading = none.prev

\* the classifier raised on one span and answered Title on another, and a
\* heading emitted after them is in the returned outline
C4_Witness ==
    /\ Returned
    /\ ~HasError(result[1])
    /\ Asked = <<PredictRaises, "Title", "H2">>
    /\ Len(result[1].outline) = 1

EndsWith(s, suffix) ==
    /\ Len(suffix) <= Len(s)
    /\ SubSeq(s, Len(s) - Len(suffix) + 1, Len(s)) = suffix

IsBaseNameOf(name, path) ==
    /\ \A k \in 1..Len(name) : name[k] # "/"
    /\ EndsWith(path, name)
    /\ Len(name) < Len(path) => path[Len(path) - Len(name)] = "/"

\* C5: a returned record has an error field exactly when the processing of
\* the document failed; it then has an empty title and an empty outline,
\* whatever headings were collected before the failure; source is the base
\* name of the path in both outcomes.
C5_ErrorRecord ==
    Returned =>
        /\ HasError(result[1]) <=> DocumentFails
        /\ HasError(result[1]) => (result[1].title = <<>> /\ result[1].outline = <<>>)
        /\ IsBaseNameOf(result[1].source, pdf_path)

\* the failure came after a title was found and a heading was collected
C5_Witness ==
    /\ Returned
    /\ HasError(result[1])
    /\ title # <<>>
    /\ Len(outline) >= 1
    /\ result[1].outline = <<>>

LacksSize(doc) == \E k \in 1..Len(doc.raw) : "size" \notin DOMAIN doc.raw[k].span

\* C6: a document with a span that has no size, on normal pages, is
\* processed to a record without an error field.
C6_MalformedSpanTolerated ==
    (/\ Returned
     /\ pdf.openable
     /\ LacksSize(pdf)
     /\ \A p \in Pages : pdf.pages[p] = PlainPage)
    => ~HasError(result[1])

-----------------------------------------------------------------------------
(* The training side: app/utils.py, generate_training_data.py, train_model.py *)

\* generate_training_data.extract_spans: the span as the geometry source
\* gives it, nothing stripped, lowercased or rounded (thousandths of a point)
TrainingSpan(raw, page_num) ==
    [text |-> raw.text,
     font |-> DictGet(raw, "font", <<>>),
     size |-> raw.size,
     bbox |-> raw.bbox,
     page |-> page_num]

\* The order of the keys of the dict the encoder of app/utils.py builds
UtilsFeatureKeys ==
    <<"font_size", "is_bold",
      "word_count", "capital_ratio", "ends_colon", "numbered",
      "starts_capital", "all_caps",
      "x0", "y_distance", "is_centered", "line_length", "page_position",
      "prev_font_size", "prev_is_bold">>

\* abs(bbox[1] - prev_bbox[1]) < 5 in thousandths
UtilsYDistance(bbox, prev) ==
    IF prev = <<>> THEN 0
    ELSE IF Abs(bbox[2] - prev[1].bbox[2]) < 5000 THEN 0
    ELSE Abs(bbox[2] - prev[1].bbox[4])

\* abs(span_center - 612 / 2) < 20 in thousandths, both sides doubled
UtilsIsCentered(bbox) == Abs(bbox[1] + bbox[3] - 612000) < 40000

\* app/utils.py extract_features
utils_extract_features(s, prev) ==
    LET text == s.text
        bbox == s.bbox
    IN  [font_size |-> s.size,
         is_bold |-> Int01(Contains(BoldWord, DictGet(s, "font", <<>>))),
         word_count |-> word_count(text),
         capital_ratio |-> <<CountUpper(text), Max(Len(text), 1)>>,
         ends_colon |-> Int01(CharAt(strip(text), Len(strip(text))) = ":"),
         numbered |-> Int01(UtilsNumberedMatch(strip(text))),
         starts_capital |-> IF text # <<>> THEN Int01(text[1] \in UpperChars) ELSE 0,
         all_caps |-> Int01(isupper(text)),
         x0 |-> bbox[1],
         y_distance |-> UtilsYDistance(bbox, prev),
         is_centered |-> Int01(UtilsIsCentered(bbox)),
         line_length |-> bbox[3] - bbox[1],
         page_position |-> <<bbox[2], 792000>>,
         prev_font_size |-> IF prev # <<>> THEN prev[1].size ELSE 0,
         prev_is_bold |-> IF prev # <<>>
                          THEN Int01(Contains(BoldWord, DictGet(prev[1], "font", <<>>)))
                          ELSE 0]

\* generate_training_data lines 52-54: the row as its (key, value) pairs in
\* the order the keys were inserted
TrainingRow(s, prev, label) ==
    LET feat == utils_extract_features(s, prev)
    IN  [k \in 1..Len(UtilsFeatureKeys) |-> <<UtilsFeatureKeys[k], feat[UtilsFeatureKeys[k]]>>]
        \o << <<"label", label>> >>

\* pd.DataFrame(rows).columns, kept by to_csv and read_csv
DataFrameColumns(rs) == [k \in 1..Len(rs[1]) |-> rs[1][k][1]]

\* df.drop("label", axis=1).columns
DropLabel(cols) == SelectSeq(cols, LAMBDA c : c # "label")

TrainingLabels == {"Title", "H1", "None"}

\* generator(): one more span of a training document becomes a row
AppendTrainingRow ==
    /\ pc = "train"
    /\ Len(rows) < MaxRows
    /\ \E label \in TrainingLabels :
          rows' = Append(rows,
                      TrainingRow(TrainingSpan(span_in.raw, 1),
                                  IF prev_in = <<>> THEN <<>>
                                  ELSE <<TrainingSpan(prev_in[1].raw, 1)>>,
                                  label))
    /\ UNCHANGED <<pc, span_in, prev_in, feats_out, x_fed, X_columns>>
    /\ UNCHANGED <<outlineVars, batchVars>>

\* train_model.py: X = df.drop("label", axis=1); model.fit(X, y_encoded)
FitModel ==
    /\ pc = "train"
    /\ rows # <<>>
    /\ X_columns' = DropLabel(DataFrameColumns(rows))
    /\ pc' = "serve"
    /\ UNCHANGED <<span_in, prev_in, feats_out, x_fed, rows>>
    /\ UNCHANGED <<outlineVars, batchVars>>

\* the span of extract_spans for a raw span of page 1; the inputs have text and size
Extracted(r) == ExtractOneSpan(r.raw, 1, r.page_dict).out[1]

\* extract_outline line 110
EncodeSpan ==
    /\ pc = "serve"
    /\ feats_out' = extract_features(Extracted(span_in),
                        IF prev_in = <<>> THEN <<>> ELSE <<Extracted(prev_in[1])>>)
    /\ pc' = "encoded"
    /\ UNCHANGED <<span_in, prev_in, x_fed, rows, X_columns>>
    /\ UNCHANGED <<outlineVars, batchVars>>

\* extract_outline lines 111-114: x is what model.predict reads
FeedModel ==
    /\ pc = "encoded"
    /\ ~feats_out.raised
    /\ x_fed' = FeatureRow(feats_out)
    /\ pc' = "fed"
    /\ UNCHANGED <<span_in, prev_in, feats_out, rows, X_columns>>
    /\ UNCHANGED <<outlineVars, batchVars>>

\* x0, y0, x1, y1 in thousandths: the horizontal midpoint is 389.99, 390 and
\* 390.01 points
EncoderBoxes ==
    { <<379980, 300000, 400000, 312000>>,
      <<380000, 300000, 400000, 312000>>,
      <<380020, 300000, 400000, 312000>> }

EncoderTexts ==
    { <<"A", " ", "b">>,
      <<"1", ")", " ", "a">>,
      <<"I", " ", "d", ":">>,
      <<"-", " ", "A", "B">>,
      <<" ", "A", "B">> }

EncoderRawSpans ==
    { [text |-> t, font |-> ArialBold, size |-> 12000, bbox |-> b] :
          t \in EncoderTexts, b \in EncoderBoxes }
    \cup { [text |-> t, size |-> 12000, bbox |-> b] : t \in EncoderTexts, b \in EncoderBoxes }

NarrowPage == [blocks |-> "blocks", width |-> 600, height |-> 800]

EncoderInputs == { [raw |-> r, page_dict |-> d] : r \in EncoderRawSpans, d \in {PlainPage, NarrowPage} }

EncoderPrevInputs ==
    { [raw |-> [text |-> <<"c">>, font |-> ArialBold, size |-> 10000, bbox |-> b],
       page_dict |-> PlainPage] : b \in {UpperBox, <<72000, 297000, 300000, 309000>>} }

InitEncoder ==
    /\ pc = "train"
    /\ span_in \in EncoderInputs
    /\ prev_in \in {<<>>} \cup { <<r>> : r \in EncoderPrevInputs }
    /\ feats_out = <<>>
    /\ x_fed = <<>>
    /\ rows = <<>>
    /\ X_columns = <<>>
    /\ OutlineIdle
    /\ BatchIdle

NextEncoder ==
    \/ AppendTrainingRow
    \/ FitModel
    \/ EncodeSpan
    \/ FeedModel

SpecEncoder == InitEncoder /\ [][NextEncoder]_vars

\* C7: position by position, the field that extract_outline feeds to the
\* model is the column the model was fitted on.
C7_SameFieldOrder ==
    x_fed # <<>> =>
        /\ Len(X_columns) = Len(FEATURE_ORDER)
        /\ \A k \in 1..Len(FEATURE_ORDER) : FEATURE_ORDER[k] = X_columns[k]

\* C8: a span whose midpoint is at most 0.15 * page_width away from the
\* centre of the page (twice the distance at most 0.30 * page_width) has
\* is_centered = 1, a span farther away has is_centered = 0.
C8_InclusiveBoundary ==
    (pc \in {"encoded", "fed"} /\ ~feats_out.raised) =>
        LET s == Extracted(span_in)
            twice == Abs(s.bbox[1] + s.bbox[3] - 100 * s.page_width)
        IN  feats_out.is_centered = IF twice <= 30 * s.page_width THEN 1 ELSE 0

-----------------------------------------------------------------------------
(* detect_title on its own *)

\* size in hundredths of a point, top is bbox[1]
TitleSpanKinds ==
    { [text |-> <<"A", " ", "b">>, size |-> 1000, top |-> 10000],
      [text |-> <<"A", " ", "b">>, size |-> 1000, top |-> 20000],
      [text |-> <<"A", " ", "b">>, size |-> 800, top |-> 10000],
      [text |-> <<"I", " ", "\t", "d">>, size |-> 1000, top |-> 10000],
      [text |-> <<"I", " ", "\t", "d">>, size |-> 900, top |-> 20000],
      [text |-> <<"c">>, size |-> 1000, top |-> 10000],
      [text |-> <<"c">>, size |-> 1200, top |-> 20000] }

TitleSpan(kind, page_num) ==
    [text |-> kind.text,
     font |-> <<>>,
     size |-> kind.size,
     bbox |-> <<7200, kind.top, 30000, kind.top + kind.size>>,
     page |-> page_num,
     page_width |-> DefaultPageWidth,
     page_height |-> DefaultPageHeight]

InitTitle ==
    /\ pc = "spans"
    /\ \E n \in 0..MaxTitleSpans :
          \E q \in [1..n -> [page : Pages, kind : TitleSpanKinds]] :
              /\ InReadingOrder(q)
              /\ spans = [k \in 1..n |-> TitleSpan(q[k].kind, q[k].page)]
    /\ pdf_path = <<>>
    /\ pdf = <<>>
    /\ title = <<>>
    /\ i = 0
    /\ outline = <<>>
    /\ prev_heading = <<>>
    /\ current_level = 0
    /\ answers = <<>>
    /\ result = <<>>
    /\ EncoderIdle
    /\ BatchIdle

\* extract_outline line 95
DetectTitle ==
    /\ pc = "spans"
    /\ title' = detect_title(spans)
    /\ pc' = "titled"
    /\ UNCHANGED <<pdf_path, pdf, spans, i, outline, prev_heading, current_level,
                   answers, result>>
    /\ UNCHANGED <<encoderVars, batchVars>>

NextTitle == DetectTitle

SpecTitle == InitTitle /\ [][NextTitle]_vars

\* the number of words: the characters that start a run of non-whitespace
Words(text) ==
    Cardinality({k \in 1..Len(text) :
                    /\ text[k] \notin Whitespace
                    /\ (k = 1 \/ text[k - 1] \in Whitespace)})

\* the texts of the spans with the given indices, joined by single spaces
RECURSIVE JoinedTexts(_)
JoinedTexts(idx) ==
    IF idx = <<>> THEN <<>>
    ELSE IF Len(idx) = 1 THEN spans[idx[1]].text
    ELSE spans[idx[1]].text \o <<" ">> \o JoinedTexts(Tail(idx))

\* the spans of page 1 that are at least 0.9 times as large as the largest
\* span of page 1 and have at least 2 words
TitleCandidates ==
    LET page1 == {k \in 1..Len(spans) : spans[k].page = 1}
        largest == CHOOSE m \in {spans[k].size : k \in page1} :
                       \A k \in page1 : spans[k].size <= m
    IN  {k \in page1 : 10 * spans[k].size >= 9 * largest /\ Words(spans[k].text) >= 2}

\* how many of the candidates come before candidate k: higher on the page,
\* or at the same height and earlier in reading order
CandidateRank(cands, k) ==
    Cardinality({j \in cands :
                    \/ spans[j].bbox[2] < spans[k].bbox[2]
                    \/ spans[j].bbox[2] = spans[k].bbox[2] /\ j < k})

FirstCandidates(cands) ==
    [r \in 1..Min(3, Cardinality(cands)) |-> CHOOSE k \in cands : CandidateRank(cands, k) = r - 1]

LongSpans == {k \in 1..Len(spans) : Words(spans[k].text) >= 2}

\* C9: the title is the texts of the first up to 3 candidates, by top of bbox
\* and then reading order, joined by single spaces; without a candidate it is
\* the text of the first span of the document with at least 2 words; it is
\* empty exactly when no span has 2 words.
C9_DetectTitle ==
    pc = "titled" =>
        LET cands == TitleCandidates
            long == LongSpans
        IN  /\ cands # {} => title = JoinedTexts(FirstCandidates(cands))
            /\ (cands = {} /\ long # {}) =>
                  title = spans[CHOOSE k \in long : \A j \in long : k <= j].text
            /\ title = <<>> <=> long = {}

\* four candidates, the first in reading order not the highest on the page,
\* two of them at the same height
C9_Witness ==
    /\ pc = "titled"
    /\ Len(spans) = 4
    /\ spans[1].bbox[2] > spans[2].bbox[2]
    /\ spans[3].bbox[2] = spans[4].bbox[2]
    /\ spans[3].text # spans[4].text
    /\ Cardinality(TitleCandidates) = 4
    /\ title # <<>>

-----------------------------------------------------------------------------
(* process *)

\* str.replace(old, new): every occurrence, left to right
RECURSIVE Replace(_, _, _)
Replace(s, old, new) ==
    IF s = <<>> THEN <<>>
    ELSE IF IsPrefix(old, s) THEN new \o Replace(SubSeq(s, Len(old) + 1, Len(s)), old, new)
    ELSE <<Head(s)>> \o Replace(Tail(s), old, new)

DotPdf == <<".", "p", "d", "f">>

DotPDF == <<".", "P", "D", "F">>

DotJson == <<".", "j", "s", "o", "n">>

\* line 157
IsPdfName(filename) == EndsWith(lower(filename), DotPdf)

\* line 162
OutputName(filename) == Replace(Replace(filename, DotPdf, DotJson), DotPDF, DotJson)

\* os.path.join(directory, filename)
PathJoin(directory, filename) == directory \o <<"/">> \o filename

InputDirName == <<"i", "n">>

\* extract_outline on a file of input_dir: a document without spans, or one
\* that does not open
OutlineOfFile(filename) ==
    IF filename \in unreadable
    THEN ErrorRecord(PathJoin(InputDirName, filename), "FileDataError")
    ELSE SuccessRecord(detect_title(<<>>), <<>>, PathJoin(InputDirName, filename))

\* lines 157-166: a file named *.pdf
ProcessPdf ==
    /\ pc = "listing"
    /\ \E filename \in pending :
          /\ IsPdfName(filename)
          /\ pending' = pending \ {filename}
          /\ output_files' =
                [n \in DOMAIN output_files \cup {OutputName(filename)} |->
                    IF n = OutputName(filename) THEN OutlineOfFile(filename)
                    ELSE output_files[n]]
          /\ stats' = [stats EXCEPT !.processed = @ + 1]
    /\ UNCHANGED <<pc, input_dir, unreadable>>
    /\ UNCHANGED <<outlineVars, encoderVars>>

\* line 157 is false
SkipOtherFile ==
    /\ pc = "listing"
    /\ \E filename \in pending :
          /\ ~IsPdfName(filename)
          /\ pending' = pending \ {filename}
    /\ UNCHANGED <<pc, input_dir, unreadable, output_files, stats>>
    /\ UNCHANGED <<outlineVars, encoderVars>>

\* line 171
FinishBatch ==
    /\ pc = "listing"
    /\ pending = {}
    /\ pc' = "finished"
    /\ UNCHANGED <<batchVars, outlineVars, encoderVars>>

FileNamePool ==
    { <<"a", ".", "p", "d", "f">>,
      <<"a", ".", "P", "D", "F">>,
      <<"a", ".", "P", "d", "f">>,
      <<"b", ".", "p", "d", "f">>,
      <<"a", ".", "j", "s", "o", "n", ".", "p", "d", "f">>,
      <<"a", ".", "t", "x", "t">> }

InitBatch ==
    /\ pc = "listing"
    /\ input_dir \in SUBSET FileNamePool
    /\ pending = input_dir
    /\ unreadable \in SUBSET {f \in input_dir : IsPdfName(f)}
    /\ output_files = <<>>
    /\ stats = [processed |-> 0, errors |-> 0]
    /\ OutlineIdle
    /\ EncoderIdle

NextBatch ==
    \/ ProcessPdf
    \/ SkipOtherFile
    \/ FinishBatch

SpecBatch == InitBatch /\ [][NextBatch]_vars

InputDocuments == {f \in input_dir : IsPdfName(f)}

\* C10: when the batch is over every input document has one output record
\* of its own, with the error field when the document failed, and there are
\* as many output records as input documents.
C10_OneRecordPerDocument ==
    pc = "finished" =>
        /\ \A f \in InputDocuments :
              \E n \in DOMAIN output_files :
                  /\ output_files[n].source = f
                  /\ f \in unreadable => HasError(output_files[n])
        /\ Cardinality(DOMAIN output_files) = Cardinality(InputDocuments)

====
